---- MODULE Spec2Model ----
(***************************************************************************)
(* Transaction assembler of the SDK (src/src/tx/index.ts) together with    *)
(* the SendMsg message type (src/src/types/send.ts).                       *)
(*                                                                         *)
(* JavaScript values are modelled as follows.  An optional value is a      *)
(* sequence of length 0 (undefined) or 1 (the value).  A plain value that  *)
(* reaches an encoder is a tagged record (JStr, JNum, JNull, JUndef, JArr, *)
(* JObj); an object is a sequence of <<key, value>> pairs in insertion     *)
(* order.  A Buffer holding text is a string, a Buffer holding binary data *)
(* is a sequence of bytes.                                                 *)
(***************************************************************************)
EXTENDS Integers, Sequences, FiniteSets, TLC

VARIABLES
  tx,             \* tx[i]: the Transaction object i, undefined until constructed
  given,          \* given[i]: the parameter object Transaction i was constructed from
  last,           \* the most recent call: its inputs, outcome and what it handed out
  added,          \* added[i]: how many addSignature calls on i returned, the latest
                  \* one's arguments, and whether a sign call on i returned
  signBytesSeen,  \* signBytesSeen[i]: outcome of the latest getSignBytes() on i
  sendMsg         \* a SendMsg used on its own: as constructed, as it is now, what
                  \* each of its methods returned last, and whether one was repeated

vars == <<tx, given, last, added, signBytesSeen, sendMsg>>

----------------------------------------------------------------------------
(* Bounds of the model *)

\* addSignature calls (direct or through sign) explored per Transaction
MaxAddCalls == 2

\* coins per output of a SendMsg used on its own
MaxCoins == 2

----------------------------------------------------------------------------
(* JavaScript values *)

Undef == <<>>
Some(v) == <<v>>
IsDef(o) == o # <<>>
Val(o) == o[1]

JStr(s) == [t |-> "str", s |-> s]
JNum(n) == [t |-> "num", n |-> n]
JNull == [t |-> "null"]
JUndef == [t |-> "undef"]
JArr(a) == [t |-> "arr", a |-> a]
JObj(kv) == [t |-> "obj", kv |-> kv]

\* an optional string as a plain value
JOptStr(o) == IF IsDef(o) THEN JStr(Val(o)) ELSE JUndef

\* obj[key]; undefined when the key is absent
Field(obj, key) ==
  LET hits == {i \in 1..Len(obj.kv) : obj.kv[i][1] = key}
  IN IF hits = {} THEN JUndef ELSE obj.kv[CHOOSE i \in hits : TRUE][2]

Digits == <<"0", "1", "2", "3", "4", "5", "6", "7", "8", "9">>

\* Number.prototype.toString() of a non-negative integer
RECURSIVE NumToString(_)
NumToString(n) ==
  IF n < 10 THEN Digits[n + 1]
  ELSE NumToString(n \div 10) \o Digits[(n % 10) + 1]

\* A number that holds a coin amount: a non-negative integer kept at the width
\* of a double, as two limbs, hi * 2^27 + lo with 0 <= lo < 2^27
Limb == 2^27

Dbl(hi, lo) == [hi |-> hi, lo |-> lo]

\* the number n, for 0 <= n < 2^27
N(n) == Dbl(0, n)

\* the limbs after the carry out of lo
Carry(hi, lo) == Dbl(hi + (lo \div Limb), lo % Limb)

\* the number of binary digits of n
RECURSIVE BitLen(_)
BitLen(n) == IF n = 0 THEN 0 ELSE 1 + BitLen(n \div 2)

\* new Big(a).plus(b): exact decimal addition
BigPlus(a, b) == Carry(a.hi + b.hi, a.lo + b.lo)

\* Number(text) of an exact integer: the nearest double, a mantissa of 53 bits,
\* a tie going to the even mantissa
ToNumber(a) ==
  LET shift == BitLen(a.hi) + 27 - 53
      step == 2^shift
      r == a.lo % step
  IN IF shift <= 0 THEN a
     ELSE IF 2 * r < step \/ (2 * r = step /\ (a.lo \div step) % 2 = 0)
     THEN Dbl(a.hi, a.lo - r)
     ELSE Carry(a.hi, a.lo - r + step)

\* String(n) of a number holding an integer below 10^21: its decimal digits
RECURSIVE DblToString(_)
DblToString(a) ==
  IF a.hi = 0 /\ a.lo < 10 THEN Digits[a.lo + 1]
  ELSE DblToString(Dbl(a.hi \div 10, ((a.hi % 10) * Limb + a.lo) \div 10))
         \o Digits[(((a.hi % 10) * Limb + a.lo) % 10) + 1]

\* a coin amount as a plain value
JDbl(a) == [t |-> "dbl", d |-> a]

SetMin(S) == CHOOSE m \in S : \A o \in S : m <= o

\* F applied to a value that is computed once
Bind(v, F(_)) == F(v)

----------------------------------------------------------------------------
(* SendMsg (src/src/types/send.ts)                                         *)
(*                                                                         *)
(* Coin objects live in the message's own heap `cells`; a coin list holds  *)
(* indices into it, so that sharing between this.outputs and a returned    *)
(* structure is visible.  Cells allocated during a call are garbage once   *)
(* the returned value has been read.                                       *)

JBuf(b) == [t |-> "buf", b |-> b]

\* enum members of TxAminoPrefix (types/stdTx)
TxAminoPrefix == [MsgSend |-> "TxAminoPrefix.MsgSend", StdTx |-> "TxAminoPrefix.StdTx"]

\* crypto.decodeAddress: the bytes a bech32 address decodes to
DecodeAddress(address) == JBuf(<<"decoded", address>>)

\* new SendMsg(sender, outputs); coins(k) is the list of {denom, amount} of output k
SendMsg(sender, addresses, coins) ==
  LET RECURSIVE Build(_, _, _)
      Build(k, outs, cells) ==
        IF k > Len(addresses) THEN [sender |-> sender, outputs |-> outs, cells |-> cells]
        ELSE Build(k + 1,
                   Append(outs, [address |-> addresses[k],
                                 coins |-> [j \in 1..Len(coins[k]) |-> Len(cells) + j]]),
                   cells \o coins[k])
  IN Build(1, <<>>, <<>>)

\* Number(new Big(existAmount).plus(amount).toString()): exact decimal addition,
\* read back as a double
PlusAmount(existAmount, amount) == ToNumber(BigPlus(existAmount, amount))

\* plausible slip: inputsCoins.push(coin), the output's own coin object
PushShared(st, coin) ==
  [cells |-> st.cells, inputsCoins |-> Append(st.inputsCoins, coin)]

\* inputsCoins.push({ ...coin }): a fresh copy of the coin
PushCopy(st, coin) ==
  [cells |-> Append(st.cells, st.cells[coin]),
   inputsCoins |-> Append(st.inputsCoins, Len(st.cells) + 1)]

\* existCoin.amount = existCoin.amount + coin.amount
AddToExisting(st, existCoin, coin) ==
  [st EXCEPT !.cells[existCoin].amount = PlusAmount(@, st.cells[coin].amount)]

\* the body of coins.forEach in calInputCoins, for one coin
CalInputCoinsStep(st, coin) ==
  LET found == {e \in 1..Len(st.inputsCoins) :
                  st.cells[st.inputsCoins[e]].denom = st.cells[coin].denom}
  IN IF found # {}
     THEN AddToExisting(st, st.inputsCoins[SetMin(found)], coin)
     ELSE PushCopy(st, coin)

\* calInputCoins(inputsCoins, coins), from coin j on
RECURSIVE CalInputCoins(_, _, _)
CalInputCoins(st, coins, j) ==
  IF j > Len(coins) THEN st
  ELSE CalInputCoins(CalInputCoinsStep(st, coins[j]), coins, j + 1)

\* this.outputs.forEach(item => this.calInputCoins(inputs[0].coins, item.coins)), from output k on
RECURSIVE ForEachOutput(_, _, _)
ForEachOutput(st, outputs, k) ==
  IF k > Len(outputs) THEN st
  ELSE ForEachOutput(CalInputCoins(st, outputs[k].coins, 1), outputs, k + 1)

\* a coin list as the plain value an encoder reads
CoinsValue(cells, coins) ==
  JArr([j \in 1..Len(coins) |->
          JObj(<< <<"denom", JStr(cells[coins[j]].denom)>>,
                  <<"amount", JDbl(cells[coins[j]].amount)>> >>)])

\* the message as left by a call: cells allocated by the call are dropped
AfterCall(m, st) == [m EXCEPT !.cells = SubSeq(st.cells, 1, Len(m.cells))]

\* SendMsg.getSignMsg(): [msg: the message afterwards, ret: the returned value]
GetSignMsg(m) ==
  Bind(ForEachOutput([cells |-> m.cells, inputsCoins |-> <<>>], m.outputs, 1), LAMBDA st :
     [msg |-> AfterCall(m, st),
      ret |-> JObj(<<
        <<"inputs", JArr(<< JObj(<< <<"address", JStr(m.sender)>>,
                                    <<"coins", CoinsValue(st.cells, st.inputsCoins)>> >>) >>)>>,
        <<"outputs", JArr([k \in 1..Len(m.outputs) |->
                            JObj(<< <<"address", JStr(m.outputs[k].address)>>,
                                    <<"coins", CoinsValue(st.cells, m.outputs[k].coins)>> >>)])>>
      >>)])

\* SendMsg.getMsg(): [msg: the message afterwards, ret: the returned value]
GetMsg(m) ==
  Bind(ForEachOutput([cells |-> m.cells, inputsCoins |-> <<>>], m.outputs, 1), LAMBDA st :
     [msg |-> AfterCall(m, st),
      ret |-> JObj(<<
        <<"inputs", JArr(<< JObj(<< <<"address", DecodeAddress(m.sender)>>,
                                    <<"coins", CoinsValue(st.cells, st.inputsCoins)>> >>) >>)>>,
        <<"outputs", JArr([k \in 1..Len(m.outputs) |->
                            JObj(<< <<"address", DecodeAddress(m.outputs[k].address)>>,
                                    <<"coins", CoinsValue(st.cells, m.outputs[k].coins)>> >>)])>>,
        <<"aminoPrefix", JStr(TxAminoPrefix.MsgSend)>>
      >>)])

----------------------------------------------------------------------------
(* Encoders and crypto used by the Transaction (../encoder, ../crypto)     *)

\* lexicographic order of the object keys that occur
KeyOrder == <<"account_number", "address", "amount", "chain_id", "coins", "data",
              "denom", "foo", "inputs", "memo", "msgs", "outputs", "sequence", "source">>

\* the pairs of an object whose key is the r-th key or a later one, in key order
RECURSIVE PairsFromRank(_, _)
PairsFromRank(kv, r) ==
  IF r > Len(KeyOrder) THEN <<>>
  ELSE SelectSeq(kv, LAMBDA pair : pair[1] = KeyOrder[r]) \o PairsFromRank(kv, r + 1)

\* the pairs of an object, keys in lexicographic order
SortedPairs(kv) == PairsFromRank(kv, 1)

\* no undefined anywhere in the value
RECURSIVE Encodable(_)
Encodable(v) ==
  CASE v.t = "undef" -> FALSE
    [] v.t = "arr" -> \A i \in 1..Len(v.a) : Encodable(v.a[i])
    [] v.t = "obj" -> \A i \in 1..Len(v.kv) : Encodable(v.kv[i][2])
    [] OTHER -> TRUE

RECURSIVE Join(_, _)
Join(parts, i) ==
  IF i > Len(parts) THEN ""
  ELSE IF i = Len(parts) THEN parts[i]
  ELSE parts[i] \o "," \o Join(parts, i + 1)

\* canonical text of an encodable value: sorted keys, no whitespace
RECURSIVE CanonicalText(_)
CanonicalText(v) ==
  CASE v.t = "str" -> "\"" \o v.s \o "\""
    [] v.t = "num" -> NumToString(v.n)
    [] v.t = "dbl" -> DblToString(v.d)
    [] v.t = "null" -> "null"
    [] v.t = "arr" -> "[" \o Join([i \in 1..Len(v.a) |-> CanonicalText(v.a[i])], 1) \o "]"
    [] v.t = "obj" ->
         Bind(SortedPairs(v.kv), LAMBDA kv :
           "{" \o Join([i \in 1..Len(kv) |->
                          "\"" \o kv[i][1] \o "\":" \o CanonicalText(kv[i][2])], 1) \o "}")

\* encoder.convertObjectToSignBytes: [err, buf]
ConvertObjectToSignBytes(obj) ==
  IF Encodable(obj)
  THEN [err |-> Undef, buf |-> Some(CanonicalText(obj))]
  ELSE [err |-> Some("EncodingError"), buf |-> Undef]

\* encoder.marshalBinary: [err, buf]; the wire bytes are an injective image of the envelope
MarshalBinary(obj) ==
  IF Encodable(obj)
  THEN [err |-> Undef, buf |-> Some([amino |-> obj])]
  ELSE [err |-> Some("EncodingError"), buf |-> Undef]

\* Buffer.prototype.toString("hex"): the hex text of a buffer
ToHexString(buf) == [hex |-> buf]

HexDigits == <<"0", "1", "2", "3", "4", "5", "6", "7", "8", "9",
               "a", "b", "c", "d", "e", "f">>

HexValue(c) == (CHOOSE d \in 1..Len(HexDigits) : HexDigits[d] = c) - 1

\* Buffer.from(text, "hex"), text a sequence of hex characters
BufferFromHex(text) ==
  [i \in 1..(Len(text) \div 2) |-> HexValue(text[2 * i - 1]) * 16 + HexValue(text[2 * i])]

\* the integer a big-endian buffer holds
RECURSIVE BufferToInt(_)
BufferToInt(buf) ==
  IF Len(buf) = 0 THEN 0
  ELSE BufferToInt(SubSeq(buf, 1, Len(buf) - 1)) * 256 + buf[Len(buf)]

\* the point at infinity has no coordinates
Infinity == [x |-> Undef, y |-> Undef]

Point(x, y) == [x |-> Some(x), y |-> Some(y)]

\* crypto.generatePubKey: the multiple of the base point by the key
GeneratePubKey(privKeyBuf) ==
  LET k == BufferToInt(privKeyBuf)
  IN IF k = 0 THEN Infinity ELSE Point(300 + 7 * k, 40 + k)

\* crypto.generateSignature: the signer's output for this text under this key
GenerateSignature(signBytesHex, privKeyBuf) ==
  [signed |-> signBytesHex, key |-> privKeyBuf]

\* UVarInt.encode: base-128 groups, least significant first, high bit continues
RECURSIVE UVarIntEncode(_)
UVarIntEncode(n) ==
  IF n < 128 THEN <<n>> ELSE <<(n % 128) + 128>> \o UVarIntEncode(n \div 128)

\* encoder.encodeBinaryByteArray: the bytes behind their length
EncodeBinaryByteArray(bytes) == UVarIntEncode(Len(bytes)) \o bytes

\* BN.prototype.toArrayLike(Buffer, "be", length)
RECURSIVE ToArrayLikeBE(_, _)
ToArrayLikeBE(n, length) ==
  IF length = 0 THEN <<>> ELSE Append(ToArrayLikeBE(n \div 256, length - 1), n % 256)

----------------------------------------------------------------------------
(* Transaction (src/src/tx/index.ts)                                       *)
(* Each operation is an operator from the object before the call to        *)
(* [tx: the object afterwards, err: the error thrown, if any, ret: the     *)
(* value returned, ...].                                                   *)

ChainIdNull == "chain id should not be null"
TypeNull == "Transaction type should not be null"
PrivateKeyNull == "private key should not be null"
NeedSignature == "need signature"
NullDereference == "TypeError: Cannot read property of null"

\* data || {}
NoParams ==
  [chainId |-> Undef, accountNumber |-> Undef, sequence |-> Undef, msg |-> Undef,
   baseMsg |-> Undef, memo |-> Undef, source |-> Undef]

\* !s for an optional string: undefined and "" are falsy
StringFalsy(o) == ~IsDef(o) \/ Val(o) = ""

\* plausible slip: n || 1, the source value of the web wallet
OrOne(o) == IF IsDef(o) /\ Val(o) # 0 THEN Val(o) ELSE 1

\* n || 0 for an optional number
OrZero(o) == IF IsDef(o) /\ Val(o) # 0 THEN Val(o) ELSE 0

\* plausible slip: the check of data.msg left out
MsgNeverFalsy(d) == FALSE

\* !data.msg
MsgFalsy(d) == ~IsDef(d.msg)

\* new Transaction(data): [err, obj]; chain_id, msg and memo are stored as given
NewTransaction(data) ==
  LET d == IF IsDef(data) THEN Val(data) ELSE NoParams
  IN IF StringFalsy(d.chainId) THEN [err |-> Some(ChainIdNull), obj |-> Undef]
     ELSE IF MsgFalsy(d) THEN [err |-> Some(TypeNull), obj |-> Undef]
     ELSE [err |-> Undef,
           obj |-> Some([sequence |-> OrZero(d.sequence),
                         account_number |-> OrZero(d.accountNumber),
                         chain_id |-> d.chainId,
                         msg |-> d.msg,
                         memo |-> d.memo,
                         source |-> OrZero(d.source),
                         signatures |-> <<>>])]

\* plausible slip: the numeric fields put in as numbers, toString() left out
SignMsgNumeric(t, msg) ==
  JObj(<< <<"account_number", JNum(t.account_number)>>,
          <<"chain_id", JOptStr(t.chain_id)>>,
          <<"data", JNull>>,
          <<"memo", JOptStr(t.memo)>>,
          <<"msgs", JArr(<<msg>>)>>,
          <<"sequence", JNum(t.sequence)>>,
          <<"source", JNum(t.source)>> >>)

\* the object literal signMsg of getSignBytes
SignMsgOf(t, msg) ==
  JObj(<< <<"account_number", JStr(NumToString(t.account_number))>>,
          <<"chain_id", JOptStr(t.chain_id)>>,
          <<"data", JNull>>,
          <<"memo", JOptStr(t.memo)>>,
          <<"msgs", JArr(<<msg>>)>>,
          <<"sequence", JStr(NumToString(t.sequence))>>,
          <<"source", JStr(NumToString(t.source))>> >>)

\* getSignBytes(msg): [tx, err, ret, enc: the object handed to the encoder]
GetSignBytes(t, msg) ==
  IF ~IsDef(msg) /\ ~IsDef(t.msg)
  THEN [tx |-> t, err |-> Some(NullDereference), ret |-> Undef, enc |-> Undef]
  ELSE
    Bind(IF IsDef(msg) THEN [msg |-> t.msg, ret |-> Val(msg)]
         ELSE Bind(GetSignMsg(Val(t.msg)), LAMBDA own : [msg |-> Some(own.msg), ret |-> own.ret]),
         LAMBDA m :
    Bind(SignMsgOf(t, m.ret), LAMBDA signMsg :
    Bind(ConvertObjectToSignBytes(signMsg), LAMBDA out :
      [tx |-> [t EXCEPT !.msg = m.msg], err |-> out.err, ret |-> out.buf,
       enc |-> Some(signMsg)])))

\* plausible slip: the parity of y never folded into the format byte
SerializePubKeyEvenFormat(unencodedPubKey) ==
  IF ~IsDef(unencodedPubKey.x) THEN [err |-> Some(NullDereference), buf |-> Undef]
  ELSE [err |-> Undef,
        buf |-> Some(<<235, 90, 233, 135>>
                     \o EncodeBinaryByteArray(UVarIntEncode(2)
                                               \o ToArrayLikeBE(Val(unencodedPubKey.x), 32)))]

\* plausible slip: a missing coordinate read as zero
SerializePubKeyZeroX(unencodedPubKey) ==
  LET y == unencodedPubKey.y
      x == IF IsDef(unencodedPubKey.x) THEN Val(unencodedPubKey.x) ELSE 0
      format == IF IsDef(y) /\ Val(y) % 2 = 1 THEN 3 ELSE 2
  IN [err |-> Undef,
      buf |-> Some(<<235, 90, 233, 135>>
                   \o EncodeBinaryByteArray(UVarIntEncode(format) \o ToArrayLikeBE(x, 32)))]

\* _serializePubKey(unencodedPubKey): [err, buf].  getX() of the point at
\* infinity yields no number, and reading it throws before anything is built
SerializePubKey(unencodedPubKey) ==
  LET y == unencodedPubKey.y
      x == unencodedPubKey.x
      format == IF IsDef(y) /\ Val(y) % 2 = 1 THEN 3 ELSE 2
  IN IF ~IsDef(x) THEN [err |-> Some(NullDereference), buf |-> Undef]
     ELSE [err |-> Undef,
           buf |-> Some(<<235, 90, 233, 135>>
                        \o EncodeBinaryByteArray(UVarIntEncode(format)
                                                  \o ToArrayLikeBE(Val(x), 32)))]

\* plausible slip: this.signatures.push(entry)
AppendSignature(signatures, entry) == Append(signatures, entry)

\* this.signatures = [entry]
ReplaceSignatures(signatures, entry) == <<entry>>

\* plausible slip: account_number and sequence of the entry exchanged
AddSignatureSwapped(t, pubKey, signature) ==
  Bind(SerializePubKey(pubKey), LAMBDA pubKeyBuf :
    IF IsDef(pubKeyBuf.err) THEN [tx |-> t, err |-> pubKeyBuf.err]
    ELSE [tx |-> [t EXCEPT !.signatures =
                    ReplaceSignatures(@, [pub_key |-> Val(pubKeyBuf.buf),
                                          signature |-> signature,
                                          account_number |-> t.sequence,
                                          sequence |-> t.account_number])],
          err |-> Undef])

\* addSignature(pubKey, signature): [tx, err]; returns this
AddSignature(t, pubKey, signature) ==
  Bind(SerializePubKey(pubKey), LAMBDA pubKeyBuf :
    IF IsDef(pubKeyBuf.err) THEN [tx |-> t, err |-> pubKeyBuf.err]
    ELSE [tx |-> [t EXCEPT !.signatures =
                    ReplaceSignatures(@, [pub_key |-> Val(pubKeyBuf.buf),
                                          signature |-> signature,
                                          account_number |-> t.account_number,
                                          sequence |-> t.sequence])],
          err |-> Undef])

\* plausible slip: the check of privateKey left out
PrivateKeyNeverFalsy(privateKey) == FALSE

\* !privateKey: the empty string is falsy
PrivateKeyFalsy(privateKey) == Len(privateKey) = 0

\* plausible slip: this.getSignBytes() called without the msg argument
SignIgnoresMsg(t, privateKey, msg) ==
  IF PrivateKeyFalsy(privateKey)
  THEN [tx |-> t, err |-> Some(PrivateKeyNull), signer |-> <<>>, adds |-> <<>>]
  ELSE
    Bind(GetSignBytes(t, Undef), LAMBDA sb :
      IF IsDef(sb.err)
      THEN [tx |-> sb.tx, err |-> sb.err, signer |-> <<>>, adds |-> <<>>]
      ELSE
        Bind(BufferFromHex(privateKey), LAMBDA privKeyBuf :
        Bind(ToHexString(Val(sb.ret)), LAMBDA text :
        Bind(GenerateSignature(text, privKeyBuf), LAMBDA signature :
        Bind(GeneratePubKey(privKeyBuf), LAMBDA pubKey :
        Bind(AddSignature(sb.tx, pubKey, signature), LAMBDA add :
          [tx |-> add.tx, err |-> add.err,
           signer |-> <<[text |-> text, key |-> privKeyBuf]>>,
           adds |-> <<[pubKey |-> pubKey, signature |-> signature]>>]))))))

\* sign(privateKey, msg): [tx, err, signer: the generateSignature calls made,
\* adds: the addSignature calls made]; returns this
Sign(t, privateKey, msg) ==
  IF PrivateKeyFalsy(privateKey)
  THEN [tx |-> t, err |-> Some(PrivateKeyNull), signer |-> <<>>, adds |-> <<>>]
  ELSE
    Bind(GetSignBytes(t, msg), LAMBDA sb :
      IF IsDef(sb.err)
      THEN [tx |-> sb.tx, err |-> sb.err, signer |-> <<>>, adds |-> <<>>]
      ELSE
        Bind(BufferFromHex(privateKey), LAMBDA privKeyBuf :
        Bind(ToHexString(Val(sb.ret)), LAMBDA text :
        Bind(GenerateSignature(text, privKeyBuf), LAMBDA signature :
        Bind(GeneratePubKey(privKeyBuf), LAMBDA pubKey :
        Bind(AddSignature(sb.tx, pubKey, signature), LAMBDA add :
          [tx |-> add.tx, err |-> add.err,
           signer |-> <<[text |-> text, key |-> privKeyBuf]>>,
           adds |-> <<[pubKey |-> pubKey, signature |-> signature]>>]))))))

\* a StdSignature as the plain value the wire encoder reads
SignatureValue(sig) ==
  JObj(<< <<"pub_key", JBuf(sig.pub_key)>>,
          <<"signature", JBuf(sig.signature)>>,
          <<"account_number", JNum(sig.account_number)>>,
          <<"sequence", JNum(sig.sequence)>> >>)

\* !this.signatures: an Array, empty or not, is an object and never falsy
SignaturesFalsy(signatures) == FALSE

\* plausible slip: data: null, as in the sign payload
StdTxNullData(t, msg) ==
  JObj(<< <<"msg", JArr(<<msg>>)>>,
          <<"signatures", JArr([k \in 1..Len(t.signatures) |-> SignatureValue(t.signatures[k])])>>,
          <<"memo", JOptStr(t.memo)>>,
          <<"source", JNum(t.source)>>,
          <<"data", JNull>>,
          <<"aminoPrefix", JStr(TxAminoPrefix.StdTx)>> >>)

\* the object literal stdTx of serialize
StdTxOf(t, msg) ==
  JObj(<< <<"msg", JArr(<<msg>>)>>,
          <<"signatures", JArr([k \in 1..Len(t.signatures) |-> SignatureValue(t.signatures[k])])>>,
          <<"memo", JOptStr(t.memo)>>,
          <<"source", JNum(t.source)>>,
          <<"data", JStr("")>>,
          <<"aminoPrefix", JStr(TxAminoPrefix.StdTx)>> >>)

\* serialize(): [tx, err, ret, enc: the object handed to the encoder]
Serialize(t) ==
  IF SignaturesFalsy(t.signatures)
  THEN [tx |-> t, err |-> Some(NeedSignature), ret |-> Undef, enc |-> Undef]
  ELSE IF ~IsDef(t.msg)
  THEN [tx |-> t, err |-> Some(NullDereference), ret |-> Undef, enc |-> Undef]
  ELSE
    Bind(GetMsg(Val(t.msg)), LAMBDA wire :
    Bind(StdTxOf(t, wire.ret), LAMBDA stdTx :
    Bind(MarshalBinary(stdTx), LAMBDA bytes :
      [tx |-> [t EXCEPT !.msg = Some(wire.msg)], err |-> bytes.err,
       ret |-> IF IsDef(bytes.err) THEN Undef ELSE Some(ToHexString(Val(bytes.buf))),
       enc |-> Some(stdTx)])))

----------------------------------------------------------------------------
(* Inputs the calls are made with *)

Coin(denom, amount) == [denom |-> denom, amount |-> amount]

\* one output
MsgOne == SendMsg("A", <<"B">>, << <<Coin("BNB", N(1))>> >>)

\* two outputs that share a denom
MsgTwo == SendMsg("A", <<"B", "C">>, << <<Coin("BNB", N(1))>>, <<Coin("BNB", N(2)), Coin("BTC", N(5))>> >>)

Numbers(n) == {Undef, Some(n)}

Memos == {Undef, Some(""), Some("hi")}

\* parameter objects; the message is passed as msg, as baseMsg, or not at all
DataSet ==
  {Undef} \cup
  {Some([chainId |-> c, accountNumber |-> a, sequence |-> q, msg |-> m[1],
         baseMsg |-> m[2], memo |-> o, source |-> r]) :
     c \in {Undef, Some(""), Some("test-chain")},
     a \in Numbers(1), q \in Numbers(5), r \in Numbers(1), o \in Memos,
     m \in {<<Undef, Undef>>, <<Undef, Some(MsgOne)>>, <<Some(MsgOne), Undef>>,
            <<Some(MsgTwo), Undef>>}}

\* parameter objects of the two-instance specification
DataPair ==
  {Some([chainId |-> Some("test-chain"), accountNumber |-> Some(1), sequence |-> Undef,
         msg |-> Some(MsgTwo), baseMsg |-> Undef, memo |-> o, source |-> Undef]) :
     o \in {Undef, Some("hi")}}

\* the msg argument of getSignBytes and sign
Overrides == {Undef, Some(JObj(<< <<"foo", JStr("bar")>> >>))}

\* private keys as hex text: empty, zero, and two ordinary keys
PrivateKeys == {<<>>, <<"0", "0">>, <<"0", "1">>, <<"0", "2">>}

PublicKeys == {GeneratePubKey(BufferFromHex(k)) : k \in PrivateKeys \ {<<>>}}

\* signatures made outside the Transaction
Signatures == {GenerateSignature(ToHexString(text), <<9>>) : text \in {"x", "y"}}

Inst == {1, 2}

----------------------------------------------------------------------------
(* The calls *)

Call(op, i, in, err, ret, enc, signer) ==
  [op |-> op, inst |-> i, in |-> in, err |-> err, ret |-> ret, enc |-> enc,
   signer |-> signer]

NoAdds == [n |-> 0, pubKey |-> Undef, signature |-> Undef, signed |-> FALSE]

\* a SendMsg right after new SendMsg(...): no method called yet
Standalone(m) ==
  [made |-> m, now |-> m, seen |-> [getSignMsg |-> Undef, getMsg |-> Undef],
   repeated |-> FALSE]

\* no Transaction constructed, no call made
InitTx ==
  /\ tx = [i \in Inst |-> Undef]
  /\ given = [i \in Inst |-> Undef]
  /\ last = Call("none", 0, <<>>, Undef, Undef, Undef, <<>>)
  /\ added = [i \in Inst |-> NoAdds]
  /\ signBytesSeen = [i \in Inst |-> Undef]

Init ==
  /\ InitTx
  /\ sendMsg = Standalone(MsgOne)

\* tx = new Transaction(data)
Construct(i, data) ==
  /\ ~IsDef(tx[i])
  /\ Bind(NewTransaction(data), LAMBDA r :
        /\ tx' = [tx EXCEPT ![i] = r.obj]
        /\ given' = [given EXCEPT ![i] = IF IsDef(r.err) THEN Undef ELSE data]
        /\ last' = Call("construct", i, <<data>>, r.err, Undef, Undef, <<>>))
  /\ UNCHANGED <<added, signBytesSeen, sendMsg>>

\* tx.getSignBytes(msg)
CallGetSignBytes(i, msg) ==
  /\ IsDef(tx[i])
  /\ Bind(GetSignBytes(Val(tx[i]), msg), LAMBDA r :
        /\ tx' = [tx EXCEPT ![i] = Some(r.tx)]
        /\ last' = Call("getSignBytes", i, <<msg>>, r.err, r.ret, r.enc, <<>>)
        /\ signBytesSeen' = IF IsDef(msg) THEN signBytesSeen
                            ELSE [signBytesSeen EXCEPT ![i] = Some([err |-> r.err, ret |-> r.ret])])
  /\ UNCHANGED <<given, added, sendMsg>>

\* the addSignature calls that returned, after these; signed: a sign call returned
Added(a, calls, err, bySign) ==
  IF IsDef(err) \/ Len(calls) = 0 THEN a
  ELSE [n |-> a.n + Len(calls),
        pubKey |-> Some(calls[Len(calls)].pubKey),
        signature |-> Some(calls[Len(calls)].signature),
        signed |-> a.signed \/ bySign]

\* tx.addSignature(pubKey, signature)
CallAddSignature(i, pubKey, signature) ==
  /\ IsDef(tx[i])
  /\ added[i].n < MaxAddCalls
  /\ Bind(AddSignature(Val(tx[i]), pubKey, signature), LAMBDA r :
        /\ tx' = [tx EXCEPT ![i] = Some(r.tx)]
        /\ last' = Call("addSignature", i, <<pubKey, signature>>, r.err,
                        IF IsDef(r.err) THEN Undef ELSE Some(i), Undef, <<>>)
        /\ added' = [added EXCEPT ![i] =
                       Added(@, <<[pubKey |-> pubKey, signature |-> signature]>>, r.err, FALSE)])
  /\ UNCHANGED <<given, signBytesSeen, sendMsg>>

\* tx.sign(privateKey, msg)
CallSign(i, privateKey, msg) ==
  /\ IsDef(tx[i])
  /\ added[i].n < MaxAddCalls
  /\ Bind(Sign(Val(tx[i]), privateKey, msg), LAMBDA r :
        /\ tx' = [tx EXCEPT ![i] = Some(r.tx)]
        /\ last' = Call("sign", i, <<privateKey, msg>>, r.err,
                        IF IsDef(r.err) THEN Undef ELSE Some(i), Undef, r.signer)
        /\ added' = [added EXCEPT ![i] = Added(@, r.adds, r.err, TRUE)])
  /\ UNCHANGED <<given, signBytesSeen, sendMsg>>

\* tx.serialize()
CallSerialize(i) ==
  /\ IsDef(tx[i])
  /\ Bind(Serialize(Val(tx[i])), LAMBDA r :
        /\ tx' = [tx EXCEPT ![i] = Some(r.tx)]
        /\ last' = Call("serialize", i, <<>>, r.err, r.ret, r.enc, <<>>))
  /\ UNCHANGED <<given, added, signBytesSeen, sendMsg>>

\* one Transaction, every input
Next ==
  \/ \E data \in DataSet : Construct(1, data)
  \/ \E msg \in Overrides : CallGetSignBytes(1, msg)
  \/ \E pubKey \in PublicKeys, signature \in Signatures : CallAddSignature(1, pubKey, signature)
  \/ \E privateKey \in PrivateKeys, msg \in Overrides : CallSign(1, privateKey, msg)
  \/ CallSerialize(1)

Spec == Init /\ [][Next]_vars

\* two Transactions, calls interleaved in any order
NextPair ==
  \E i \in Inst :
    \/ \E data \in DataPair : Construct(i, data)
    \/ CallGetSignBytes(i, Undef)
    \/ \E signature \in Signatures :
         CallAddSignature(i, GeneratePubKey(BufferFromHex(<<"0", "2">>)), signature)
    \/ \E msg \in Overrides : CallSign(i, <<"0", "1">>, msg)
    \/ CallSerialize(i)

SpecPair == Init /\ [][NextPair]_vars

----------------------------------------------------------------------------
(* A SendMsg used on its own *)

\* the coins an output may hold: amounts 1, 2^53 and 5
CoinSet == {Coin("BNB", N(1)), Coin("BNB", Dbl(2^26, 0)), Coin("BTC", N(5))}

\* the coin lists of an output
CoinLists == UNION {[1..n -> CoinSet] : n \in 0..MaxCoins}

\* the addresses of the outputs, in order
Addresses == <<"B", "C">>

\* every SendMsg from sender "A" to the first so many addresses
Messages ==
  UNION {{SendMsg("A", SubSeq(Addresses, 1, n), coins) : coins \in [1..n -> CoinLists]} :
           n \in 0..Len(Addresses)}

InitMsg ==
  /\ InitTx
  /\ \E m \in Messages : sendMsg = Standalone(m)

\* sendMsg.getSignMsg()
CallGetSignMsg ==
  /\ Bind(GetSignMsg(sendMsg.now), LAMBDA r :
        /\ sendMsg' = [sendMsg EXCEPT !.now = r.msg,
                                      !.seen.getSignMsg = Some(r.ret),
                                      !.repeated = @ \/ IsDef(sendMsg.seen.getSignMsg)]
        /\ last' = Call("getSignMsg", 0, <<>>, Undef, Some(r.ret), Undef, <<>>))
  /\ UNCHANGED <<tx, given, added, signBytesSeen>>

\* sendMsg.getMsg()
CallGetMsg ==
  /\ Bind(GetMsg(sendMsg.now), LAMBDA r :
        /\ sendMsg' = [sendMsg EXCEPT !.now = r.msg,
                                      !.seen.getMsg = Some(r.ret),
                                      !.repeated = @ \/ IsDef(sendMsg.seen.getMsg)]
        /\ last' = Call("getMsg", 0, <<>>, Undef, Some(r.ret), Undef, <<>>))
  /\ UNCHANGED <<tx, given, added, signBytesSeen>>

\* one SendMsg, its two methods in any order
NextMsg ==
  \/ CallGetSignMsg
  \/ CallGetMsg

SpecMsg == InitMsg /\ [][NextMsg]_vars

----------------------------------------------------------------------------
(* Properties *)

Obj(i) == Val(tx[i])

Constructed == {i \in Inst : IsDef(tx[i])}

\* the parameter object of the latest constructor call, after data || {}
LastData == IF IsDef(last.in[1]) THEN Val(last.in[1]) ELSE NoParams

\* C1: serialize() on a Transaction whose signatures is empty fails with the
\* missing-signature error and returns no string.
C1_SerializeUnsignedFails ==
  (last.op = "serialize" /\ Len(Obj(last.inst).signatures) = 0)
    => (last.err = Some(NeedSignature) /\ ~IsDef(last.ret))

\* C2: signatures never holds more than one entry, and once two or more
\* addSignature calls have returned it holds exactly one, built from the public
\* key and the signature of the latest of them.
C2_OneSignatureLatestWins ==
  \A i \in Constructed :
    /\ Len(Obj(i).signatures) <= 1
    /\ added[i].n >= 2 =>
         /\ Len(Obj(i).signatures) = 1
         /\ Obj(i).signatures[1].pub_key = Val(SerializePubKey(Val(added[i].pubKey)).buf)
         /\ Obj(i).signatures[1].signature = Val(added[i].signature)

\* two addSignature calls have returned, the later with another signature than
\* the sign call before it
C2_Witness ==
  /\ 1 \in Constructed
  /\ added[1].n >= 2
  /\ added[1].signed
  /\ last.op = "addSignature"
  /\ ~IsDef(last.err)

\* C3: the constructor fails with a missing-field error when chainId or the
\* message is absent, leaving no Transaction; a constructed Transaction has a
\* chain id and a message.
C3_ConstructValidates ==
  /\ (last.op = "construct" /\ (~IsDef(LastData.chainId) \/ ~IsDef(LastData.msg)))
       => (last.err \in {Some(ChainIdNull), Some(TypeNull)} /\ ~IsDef(tx[last.inst]))
  /\ \A i \in Constructed : IsDef(Obj(i).chain_id) /\ IsDef(Obj(i).msg)

\* a constructor call with a chain id and no message has failed
C3_Witness ==
  /\ last.op = "construct"
  /\ IsDef(LastData.chainId)
  /\ ~IsDef(LastData.msg)
  /\ last.err = Some(TypeNull)

\* C4: sign with an empty private key fails with the missing-key error, calls
\* no signer and leaves the Transaction as it was.
C4_SignEmptyKeyNoEffect ==
  [][(last'.op = "sign" /\ Len(last'.in[1]) = 0)
       => /\ last'.err = Some(PrivateKeyNull)
          /\ last'.signer = <<>>
          /\ tx' = tx
          /\ added' = added]_vars

\* sign with an empty key has failed on a Transaction that holds a signature
C4_Witness ==
  /\ last.op = "sign"
  /\ Len(last.in[1]) = 0
  /\ IsDef(last.err)
  /\ Len(Obj(last.inst).signatures) = 1

\* C5: once getSignBytes() has produced an outcome on a Transaction, every later
\* getSignBytes() on it produces the same outcome, whatever was called between.
C5_GetSignBytesIdempotent ==
  [][\A i \in Inst : IsDef(signBytesSeen[i]) => signBytesSeen'[i] = signBytesSeen[i]]_vars

\* getSignBytes() has returned bytes on a Transaction that was signed after
\* construction and whose message repeats a denom
C5_Witness ==
  /\ last.op = "getSignBytes"
  /\ ~IsDef(last.in[1])
  /\ IsDef(last.ret)
  /\ Len(Obj(last.inst).signatures) = 1
  /\ Obj(last.inst).msg = Some(MsgTwo)

\* C6: two Transactions constructed from field-identical parameter objects give
\* the same getSignBytes() outcome, whatever else was called on either.
C6_SameParamsSameSignBytes ==
  (/\ IsDef(given[1])
   /\ given[1] = given[2]
   /\ IsDef(signBytesSeen[1])
   /\ IsDef(signBytesSeen[2]))
    => signBytesSeen[1] = signBytesSeen[2]

\* both Transactions come from the same parameters and have returned sign
\* bytes, one of them signed and serialized, the other neither
C6_Witness ==
  /\ IsDef(given[1])
  /\ given[1] = given[2]
  /\ IsDef(signBytesSeen[1])
  /\ IsDef(signBytesSeen[2])
  /\ IsDef(Val(signBytesSeen[1]).ret)
  /\ Len(Obj(1).signatures) = 1
  /\ Len(Obj(2).signatures) = 0
  /\ last.op = "serialize"
  /\ last.inst = 1

\* C7: on a Transaction on which a sign call has returned, serialize() succeeds
\* and hands the wire encoder exactly: msg, the one wire form of the message;
\* signatures, the one signature held; memo; source; data ""; the StdTx tag.
C7_SerializeSignedEnvelope ==
  (last.op = "serialize" /\ added[last.inst].signed)
    => /\ ~IsDef(last.err)
       /\ IsDef(last.ret)
       /\ Len(Val(last.enc).kv) = 6
       /\ Field(Val(last.enc), "msg") = JArr(<<GetMsg(Val(Obj(last.inst).msg)).ret>>)
       /\ Len(Obj(last.inst).signatures) = 1
       /\ Field(Val(last.enc), "signatures")
            = JArr(<<SignatureValue(Obj(last.inst).signatures[1])>>)
       /\ Field(Val(last.enc), "memo") = JOptStr(Obj(last.inst).memo)
       /\ Field(Val(last.enc), "source") = JNum(Obj(last.inst).source)
       /\ Field(Val(last.enc), "data") = JStr("")
       /\ Field(Val(last.enc), "aminoPrefix") = JStr(TxAminoPrefix.StdTx)

\* serialize() has returned a string on a Transaction signed through sign
C7_Witness ==
  /\ last.op = "serialize"
  /\ added[last.inst].signed
  /\ IsDef(last.ret)

\* C8: the constructor accepts the parameter object of the tests: chainId,
\* accountNumber, sequence, memo "", source 1 and the message under baseMsg.
C8_TestParamsConstruct ==
  (/\ last.op = "construct"
   /\ IsDef(last.in[1])
   /\ LastData.chainId = Some("test-chain")
   /\ IsDef(LastData.accountNumber)
   /\ IsDef(LastData.sequence)
   /\ IsDef(LastData.baseMsg)
   /\ LastData.memo = Some("")
   /\ LastData.source = Some(1))
    => (~IsDef(last.err) /\ IsDef(tx[last.inst]))

\* C9: on a Transaction constructed without a memo, the memo handed to an
\* encoder by getSignBytes and by serialize is the empty string.
C9_MemoDefaultsEmpty ==
  (/\ last.op \in {"getSignBytes", "serialize"}
   /\ IsDef(last.enc)
   /\ ~IsDef(Val(given[last.inst]).memo))
    => Field(Val(last.enc), "memo") = JStr("")

\* the call compressed the point at infinity: addSignature was given it, or
\* sign derived it from its key after the signer had run
CompressedIdentity(call) ==
  \/ call.op = "addSignature" /\ call.in[1] = Infinity
  \/ /\ call.op = "sign"
     /\ call.signer # <<>>
     /\ GeneratePubKey(call.signer[1].key) = Infinity

\* C10: an addSignature or sign call that compresses the point at infinity
\* fails in the compression, and signatures is what it was before the call.
C10_IdentityPointRejected ==
  [][CompressedIdentity(last')
       => /\ last'.err = Some(NullDereference)
          /\ Val(tx'[last'.inst]).signatures = Val(tx[last'.inst]).signatures]_vars

\* sign with the zero key has failed on a Transaction that holds a signature
C10_Witness ==
  /\ CompressedIdentity(last)
  /\ last.op = "sign"
  /\ IsDef(last.err)
  /\ Len(Obj(last.inst).signatures) = 1

\* C11: the public key stored in a signature is the 4-byte key-type tag, a
\* length prefix saying 33, the format byte (3 for an odd y, 2 for an even y)
\* and the x coordinate as 32 big-endian bytes.
C11_CompressedKeyLayout ==
  \A i \in Constructed :
    Len(Obj(i).signatures) = 1 =>
      /\ Len(Obj(i).signatures[1].pub_key) = 4 + 1 + 33
      /\ SubSeq(Obj(i).signatures[1].pub_key, 1, 4) = <<235, 90, 233, 135>>
      /\ Obj(i).signatures[1].pub_key[5] = 33
      /\ Obj(i).signatures[1].pub_key[6]
           = (IF Val(Val(added[i].pubKey).y) % 2 = 1 THEN 3 ELSE 2)
      /\ BufferToInt(SubSeq(Obj(i).signatures[1].pub_key, 7, 38)) = Val(Val(added[i].pubKey).x)

\* a signature holds the key of a point with an odd y and an x of two bytes
C11_Witness ==
  /\ 1 \in Constructed
  /\ Len(Obj(1).signatures) = 1
  /\ Val(Val(added[1].pubKey).y) % 2 = 1
  /\ Val(Val(added[1].pubKey).x) > 255
  /\ Obj(1).signatures[1].pub_key[6] = 3

\* C12: the object getSignBytes(m) hands to the canonical encoder has exactly:
\* account_number, sequence and source as the decimal strings of the
\* Transaction's numbers, chain_id its chain id, data null, memo its memo, and
\* msgs with one element, m when given and else the message's signable form.
C12_SignPayload ==
  (last.op = "getSignBytes" /\ IsDef(last.enc))
    => /\ Len(Val(last.enc).kv) = 7
       /\ Field(Val(last.enc), "account_number")
            = JStr(NumToString(Obj(last.inst).account_number))
       /\ Field(Val(last.enc), "sequence") = JStr(NumToString(Obj(last.inst).sequence))
       /\ Field(Val(last.enc), "source") = JStr(NumToString(Obj(last.inst).source))
       /\ Field(Val(last.enc), "chain_id") = JOptStr(Obj(last.inst).chain_id)
       /\ Field(Val(last.enc), "data") = JNull
       /\ Field(Val(last.enc), "memo") = JOptStr(Obj(last.inst).memo)
       /\ Field(Val(last.enc), "msgs")
            = JArr(<< IF IsDef(last.in[1]) THEN Val(last.in[1])
                      ELSE GetSignMsg(Val(Obj(last.inst).msg)).ret >>)

\* the scenario of the specification: chain id "test-chain", sequence 5,
\* account number 1, source 0, memo "", signable form {foo: "bar"}
C12_Witness ==
  /\ last.op = "getSignBytes"
  /\ IsDef(last.in[1])
  /\ last.ret = Some("{\"account_number\":\"1\",\"chain_id\":\"test-chain\",\"data\":null,\"memo\":\"\",\"msgs\":[{\"foo\":\"bar\"}],\"sequence\":\"5\",\"source\":\"0\"}")

\* the number a parameter supplies, 0 when it is not supplied
Supplied(o) == IF IsDef(o) THEN Val(o) ELSE 0

\* C13: right after a successful construction, sequence, accountNumber and
\* source are the supplied values, 0 where none was supplied, and signatures
\* is empty.
C13_ConstructDefaults ==
  (last.op = "construct" /\ ~IsDef(last.err))
    => /\ Obj(last.inst).sequence = Supplied(LastData.sequence)
       /\ Obj(last.inst).account_number = Supplied(LastData.accountNumber)
       /\ Obj(last.inst).source = Supplied(LastData.source)
       /\ Obj(last.inst).signatures = <<>>

\* a Transaction was constructed with a sequence and without account number
\* and source
C13_Witness ==
  /\ last.op = "construct"
  /\ ~IsDef(last.err)
  /\ LastData.sequence = Some(5)
  /\ ~IsDef(LastData.accountNumber)
  /\ ~IsDef(LastData.source)
  /\ Obj(last.inst).sequence = 5

\* the fields of a Transaction other than signatures
Fixed(t) == [t EXCEPT !.signatures = <<>>]

\* C14: once constructed, a Transaction keeps its chain id, account number,
\* sequence, memo, source and message through every call; getSignBytes and
\* serialize change nothing at all, and serialize() right after serialize()
\* returns the same string.
C14_Frame ==
  [][\A i \in Inst :
       IsDef(tx[i]) =>
         /\ IsDef(tx'[i])
         /\ Fixed(Val(tx'[i])) = Fixed(Val(tx[i]))
         /\ last'.op \in {"getSignBytes", "serialize"} => tx'[i] = tx[i]
         /\ (last.op = "serialize" /\ last'.op = "serialize" /\ last'.inst = last.inst)
              => last'.ret = last.ret]_vars

\* serialize() has returned a string on a signed Transaction whose message
\* repeats a denom
C14_Witness ==
  /\ last.op = "serialize"
  /\ IsDef(last.ret)
  /\ Len(Obj(last.inst).signatures) = 1
  /\ Obj(last.inst).msg = Some(MsgTwo)

\* C15: every entry of signatures carries the account number and the sequence
\* of the Transaction that holds it.
C15_SignatureCarriesAccount ==
  \A i \in Constructed :
    \A k \in 1..Len(Obj(i).signatures) :
      /\ Obj(i).signatures[k].account_number = Obj(i).account_number
      /\ Obj(i).signatures[k].sequence = Obj(i).sequence

\* a direct addSignature call has attached an entry to a Transaction whose
\* account number and sequence differ
C15_Witness ==
  /\ last.op = "addSignature"
  /\ ~IsDef(last.err)
  /\ Obj(last.inst).account_number = 1
  /\ Obj(last.inst).sequence = 5
  /\ Len(Obj(last.inst).signatures) = 1

\* C16: a sign(key, m) call that returns has called the signer once, on the hex
\* text of getSignBytes(m) under key, and addSignature once; the entry it leaves
\* holds the signer's output and the compressed public key derived from key;
\* it returns the Transaction it was called on.
C16_SignAttachesSignerOutput ==
  [][(last'.op = "sign" /\ ~IsDef(last'.err))
       => \A bytes \in {GetSignBytes(Val(tx[last'.inst]), last'.in[2]).ret} :
            /\ IsDef(bytes)
            /\ last'.signer
                 = <<[text |-> ToHexString(Val(bytes)), key |-> BufferFromHex(last'.in[1])]>>
            /\ Len(Val(tx'[last'.inst]).signatures) = 1
            /\ Val(tx'[last'.inst]).signatures[1].signature
                 = GenerateSignature(ToHexString(Val(bytes)), BufferFromHex(last'.in[1]))
            /\ Val(tx'[last'.inst]).signatures[1].pub_key
                 = Val(SerializePubKey(GeneratePubKey(BufferFromHex(last'.in[1]))).buf)
            /\ added'[last'.inst].n = added[last'.inst].n + 1
            /\ last'.ret = Some(last'.inst)]_vars

\* sign with an ordinary key and a msg argument has returned
C16_Witness ==
  /\ last.op = "sign"
  /\ ~IsDef(last.err)
  /\ IsDef(last.in[2])
  /\ Len(last.signer) = 1
  /\ Len(Obj(last.inst).signatures) = 1
\* the coins of the outputs from output k on, in order
RECURSIVE OutputCoins(_, _)
OutputCoins(m, k) ==
  IF k > Len(m.outputs) THEN <<>>
  ELSE [j \in 1..Len(m.outputs[k].coins) |-> m.cells[m.outputs[k].coins[j]]]
         \o OutputCoins(m, k + 1)

\* the denoms of coins j.. that no earlier coin has, in order
RECURSIVE DenomsInOrder(_, _)
DenomsInOrder(flat, j) ==
  IF j > Len(flat) THEN <<>>
  ELSE (IF \E i \in 1..(j - 1) : flat[i].denom = flat[j].denom THEN <<>>
        ELSE <<flat[j].denom>>) \o DenomsInOrder(flat, j + 1)

\* the exact sum of the amounts of the coins j.. of this denom
RECURSIVE TotalOf(_, _, _)
TotalOf(flat, denom, j) ==
  IF j > Len(flat) THEN N(0)
  ELSE IF flat[j].denom = denom THEN BigPlus(flat[j].amount, TotalOf(flat, denom, j + 1))
  ELSE TotalOf(flat, denom, j + 1)

\* the sender as the method renders an address
AddressOf(op, address) == IF op = "getMsg" THEN DecodeAddress(address) ELSE JStr(address)

\* C17: getSignMsg and getMsg return exactly one input, addressed to the
\* sender, whose coins are one entry per distinct denom of the outputs, in order
\* of first occurrence, each with the sum of the amounts of all output coins of
\* that denom (the number nearest to it); the outputs come back in the given
\* order, coins unaggregated.
C17_OneInputSummedPerDenom ==
  last.op \in {"getSignMsg", "getMsg"} =>
    \A made \in {sendMsg.made}, ret \in {Val(last.ret)} :
      \A flat \in {OutputCoins(made, 1)} :
        \A denoms \in {DenomsInOrder(flat, 1)} :
          /\ Field(ret, "inputs")
               = JArr(<< JObj(<< <<"address", AddressOf(last.op, made.sender)>>,
                                 <<"coins",
                                   JArr([e \in 1..Len(denoms) |->
                                          JObj(<< <<"denom", JStr(denoms[e])>>,
                                                  <<"amount",
                                                    JDbl(ToNumber(TotalOf(flat, denoms[e], 1)))>>
                                               >>)])>>
                              >>) >>)
          /\ Field(ret, "outputs")
               = JArr([k \in 1..Len(made.outputs) |->
                        JObj(<< <<"address", AddressOf(last.op, made.outputs[k].address)>>,
                                <<"coins", CoinsValue(made.cells, made.outputs[k].coins)>> >>)])

\* C18: no getSignMsg or getMsg call changes the outputs the SendMsg was
\* constructed with (addresses, denoms, amounts), and a method called again
\* returns what it returned before.
C18_OutputsUntouched ==
  [][/\ sendMsg'.made = sendMsg.made
     /\ [k \in 1..Len(sendMsg'.now.outputs) |->
           [address |-> sendMsg'.now.outputs[k].address,
            coins |-> [j \in 1..Len(sendMsg'.now.outputs[k].coins) |->
                        sendMsg'.now.cells[sendMsg'.now.outputs[k].coins[j]]]]]
          = [k \in 1..Len(sendMsg.made.outputs) |->
              [address |-> sendMsg.made.outputs[k].address,
               coins |-> [j \in 1..Len(sendMsg.made.outputs[k].coins) |->
                           sendMsg.made.cells[sendMsg.made.outputs[k].coins[j]]]]]
     /\ IsDef(sendMsg.seen.getSignMsg) => sendMsg'.seen.getSignMsg = sendMsg.seen.getSignMsg
     /\ IsDef(sendMsg.seen.getMsg) => sendMsg'.seen.getMsg = sendMsg.seen.getMsg]_vars

\* both methods have been called, one of them again, on a message whose denom
\* occurs twice in one output and once more in the other
C18_Witness ==
  /\ last.op = "getSignMsg"
  /\ sendMsg.repeated
  /\ IsDef(sendMsg.seen.getMsg)
  /\ sendMsg.made = SendMsg("A", <<"B", "C">>, << <<Coin("BNB", N(1)), Coin("BNB", N(1))>>,
                                                 <<Coin("BNB", Dbl(2^26, 0))>> >>)

====
